---- MODULE Spec2Model ----
(***************************************************************************)
(* vl_vector<T, static_cap> (src/vl_vector.h): a vector that keeps its     *)
(* elements in an embedded array while _cap == static_cap and in a heap    *)
(* array otherwise.  The model keeps the fields of every object, the heap  *)
(* cells `new T[n]` hands out, and one action per public operation.        *)
(***************************************************************************)
EXTENDS Integers, Sequences, FiniteSets, TLC

\* ---------------------------------------------------------------- bounds
\* template parameter static_cap of the instantiation that is checked
static_cap == 1
\* no operation is started that would take _size above MaxSize
MaxSize == 4
\* longest range handed to insert(position, first, last)
MaxK == 2
\* heap cells (addresses) operator new[] can hand out
MaxAddr == 4
\* largest size and largest k handed to cap_c when it is checked on its own
MaxArg == 8
\* no operation on two objects is started that would take _size above MaxCopy
MaxCopy == 3

\* two element values that operator== tells apart
Values == {1, 2}
\* an element that was default-initialised and never written
Undef == 0
\* nullptr
NullPtr == 0
Addrs == 1..MaxAddr

\* the object under test, a second object, and a temporary of an expression
Vecs == {"a", "b", "t"}

VARIABLES
  vec,       \* vec[c]: the fields of object c (alive, _stack_data, _heap_data, _size, _cap)
  heap,      \* heap[x]: the array at address x (live, owner, cells)
  ub,        \* TRUE once an operation had undefined behaviour; the run stops there
  elemKind,  \* T is "trivial" (trivially copyable), "class" (its move assignment copies)
             \* or "movable" (its move assignment leaves the source moved-from)
  last,      \* the last operation: its name, the branch it took, what it threw
  pushes,    \* while nothing but push_back ran on an empty object: the number of
             \* calls, the predicted capacity, the allocations made, the values pushed
  growth     \* a call of cap_c on its own: its arguments, whether it returned, its result

vars == <<vec, heap, ub, elemKind, last, pushes, growth>>

\* ------------------------------------------------------------- sequences
Fresh(n) == [i \in 1..n |-> Undef]

\* src[i, j) (0-based), the elements a half-open iterator range denotes
Slice(src, i, j) == [n \in 1..(j - i) |-> src[i + n]]

\* std::copy(src + i, src + j, dst + d) between two different arrays
std_copy(src, i, j, dst, d) ==
  [n \in 1..Len(dst) |-> IF n - 1 >= d /\ n - 1 < d + (j - i) THEN src[n - d + i] ELSE dst[n]]

\* the element-by-element loop of std::move / std::copy inside one array:
\* buf[d] = buf[i]; buf[d+1] = buf[i+1]; ... in increasing order
RECURSIVE forward_loop(_, _, _, _)
forward_loop(buf, i, j, d) ==
  IF i >= j THEN buf
  ELSE forward_loop([buf EXCEPT ![d + 1] = buf[i + 1]], i + 1, j, d + 1)

\* the same loop for elements whose move assignment hands the value over:
\* buf[d] = std::move(buf[i]) leaves buf[i] moved-from (valid, value
\* unspecified: Undef), also when d == i (self-move, as std::vector does)
RECURSIVE moving_loop(_, _, _, _)
moving_loop(buf, i, j, d) ==
  IF i >= j THEN buf
  ELSE moving_loop([[buf EXCEPT ![d + 1] = buf[i + 1]] EXCEPT ![i + 1] = Undef],
                   i + 1, j, d + 1)

\* memmove inside one array: every source element is read before any write
mem_move(buf, i, j, d) ==
  [n \in 1..Len(buf) |-> IF n - 1 >= d /\ n - 1 < d + (j - i) THEN buf[n - d + i] ELSE buf[n]]

\* std::move(buf + i, buf + j, buf + d) inside one array.  The library moves
\* trivially copyable elements with memmove and all others with the forward
\* loop, assigning by copy or by move as T defines it; when d lies in [i, j)
\* the call breaks the precondition of std::move and the three outcomes differ.
std_move(buf, i, j, d, kind) ==
  IF kind = "trivial" THEN mem_move(buf, i, j, d)
  ELSE IF kind = "class" THEN forward_loop(buf, i, j, d)
  ELSE moving_loop(buf, i, j, d)

\* std::fill_n(buf, count, v)
std_fill_n(buf, count, v) ==
  [n \in 1..Len(buf) |-> IF n <= count THEN v ELSE buf[n]]

\* std::equal(x, x + n, y)
std_equal(x, n, y) == \A i \in 1..n : x[i] = y[i]

\* ------------------------------------------------------------------ heap
FreeCell == [live |-> FALSE, owner |-> "", cells |-> <<>>]

DeadVec == [alive |-> FALSE, stack_data |-> Fresh(static_cap), heap_data |-> NullPtr,
            size |-> 0, cap |-> 0]

\* operator new[]: the lowest address that holds no live array
new_addr(h) ==
  LET free == {x \in Addrs : ~h[x].live}
  IN  CHOOSE x \in free : \A y \in free : x <= y

\* new T[n] by object c, at address x
new_arr(w, c, x, n) ==
  [w EXCEPT !.heap[x] = [live |-> TRUE, owner |-> c, cells |-> Fresh(n)]]

\* delete[] p by object c.  Deleting nullptr does nothing; deleting an array
\* that was already released (also when its address was handed out again to
\* another object) is undefined.
delete_arr(w, c, p) ==
  IF w.ub \/ p = NullPtr THEN w
  ELSE IF w.heap[p].live /\ w.heap[p].owner = c THEN [w EXCEPT !.heap[p] = FreeCell]
  ELSE [w EXCEPT !.ub = TRUE]

\* may object c touch the first n elements behind pointer p ?
heap_ok(w, c, p, n) ==
  n = 0 \/ (p # NullPtr /\ w.heap[p].live /\ w.heap[p].owner = c /\ Len(w.heap[p].cells) >= n)

\* ------------------------------------------------------------ the object
\* cap_c with the pending k left out of the growth: (int)(1.5 * size)
cap_c_without_k(size, k) ==
  IF size + k <= static_cap THEN static_cap ELSE (3 * size) \div 2

\* cap_c rounding 1.5 * (size + k) up instead of truncating it
cap_c_rounding_up(size, k) ==
  IF size + k <= static_cap THEN static_cap ELSE (3 * (size + k) + 1) \div 2

\* cap_c: static_cap when size + k fits, else (int)(1.5 * (size + k))
cap_c(size, k) ==
  IF size + k <= static_cap THEN static_cap ELSE (3 * (size + k)) \div 2

\* does data() return _stack_data ?
on_stack(v) == v.cap = static_cap

\* the cells data() points at
data(w, c) ==
  IF on_stack(w.vec[c]) THEN w.vec[c].stack_data ELSE w.heap[w.vec[c].heap_data].cells

\* may object c touch data()[0, n) ?
data_ok(w, c, n) ==
  on_stack(w.vec[c]) \/ heap_ok(w, c, w.vec[c].heap_data, n)

\* an iterator: the array it points into and the offset
StackPos(off) == [store |-> "stack", addr |-> NullPtr, off |-> off]
HeapPos(x, off) == [store |-> "heap", addr |-> x, off |-> off]
NoPos == [store |-> "none", addr |-> NullPtr, off |-> 0]
\* data() + off
DataPos(v, off) == IF on_stack(v) THEN StackPos(off) ELSE HeapPos(v.heap_data, off)

\* what an operation hands back: the world after it, the exception it threw,
\* the branch it took and the iterator it returned
Out(w, exc, path, pos) == [w |-> w, exc |-> exc, path |-> path, pos |-> pos]
Undefined(w, path) == Out([w EXCEPT !.ub = TRUE], "none", path, NoPos)

\* vl_vector()
ctor_default(w, c) ==
  [w EXCEPT !.vec[c] = [alive |-> TRUE, stack_data |-> Fresh(static_cap),
                        heap_data |-> NullPtr, size |-> 0, cap |-> static_cap]]

\* ~vl_vector()
dtor(w, c) ==
  LET w1 == delete_arr(w, c, w.vec[c].heap_data)
  IN  IF w1.ub THEN w1 ELSE [w1 EXCEPT !.vec[c] = DeadVec]

\* insert asking for cap_c(_size + k, k): the k new elements counted twice
grown_cap_twice_k(size, k) == cap_c(size + k, k)

\* the capacity insert asks for when _size + k does not fit: cap_c(_size, k)
grown_cap(size, k) == cap_c(size, k)

\* the third copy started at it_1 instead of it_2: the suffix lands on the
\* new elements
three_copies_at_it_1(src, p, size, xs, ncap) ==
  LET b1 == std_copy(src, 0, p, Fresh(ncap), 0)
      b2 == std_copy(xs, 0, Len(xs), b1, p)
  IN  std_copy(src, p, size, b2, p)

\* the first copy left out: the elements before pos never reach the new array
three_copies_without_prefix(src, p, size, xs, ncap) ==
  LET b2 == std_copy(xs, 0, Len(xs), Fresh(ncap), p)
  IN  std_copy(src, p, size, b2, p + Len(xs))

\* the three std::copy calls of a reallocating insert, into a new array of ncap
\* elements: src[0, p), then the new elements, then src[p, size)
three_copies(src, p, size, xs, ncap) ==
  LET b1 == std_copy(src, 0, p, Fresh(ncap), 0)
      b2 == std_copy(xs, 0, Len(xs), b1, p)
  IN  std_copy(src, p, size, b2, p + Len(xs))

\* insert without reallocation: std::move(pos, end(), pos + k), then
\* std::copy(first, last, pos)
shift_right(buf, p, size, xs, kind) ==
  std_copy(xs, 0, Len(xs), std_move(buf, p, size, p + Len(xs), kind), p)

\* the first copy left out: heap[0, first) never reaches _stack_data
demote_copies_no_prefix(old, first, lst, size, stack) ==
  std_copy(old, lst, size, stack, first)

\* the two std::copy calls of a demoting erase: heap[0, first) and
\* heap[lst, size) into _stack_data
demote_copies(old, first, lst, size, stack) ==
  std_copy(old, lst, size, std_copy(old, 0, first, stack, 0), first)

\* erase without demotion: std::move(last, end(), first)
shift_left(buf, first, lst, size, kind) == std_move(buf, lst, size, first, kind)

\* insert(position, first, last) with position == data() + p and [first, last) == xs;
\* oom: the `new T[_cap]` of this call throws std::bad_alloc
insert(w, c, p, xs, oom) ==
  LET v == w.vec[c]
      k == Len(xs)
      ncap == grown_cap(v.size, k)
      w1 == [w EXCEPT !.vec[c].cap = ncap]
      x == new_addr(w.heap)
  IN
  IF on_stack(v) /\ v.size + k > v.cap THEN
    IF oom THEN Out(w1, "bad_alloc", "promote", NoPos)
    ELSE
      LET b3 == three_copies(v.stack_data, p, v.size, xs, ncap)
      IN  Out([w1 EXCEPT !.heap[x] = [live |-> TRUE, owner |-> c, cells |-> b3],
                         !.vec[c].heap_data = x,
                         !.vec[c].size = v.size + k],
              "none", "promote", HeapPos(x, p))
  ELSE IF ~on_stack(v) /\ v.size + k > v.cap THEN
    IF oom THEN Out(w1, "bad_alloc", "grow", NoPos)
    ELSE IF ~heap_ok(w, c, v.heap_data, v.size) THEN Undefined(w, "grow")
    ELSE
      LET old == IF v.size = 0 THEN <<>> ELSE w.heap[v.heap_data].cells
          b3 == three_copies(old, p, v.size, xs, ncap)
          w2 == [w1 EXCEPT !.heap[x] = [live |-> TRUE, owner |-> c, cells |-> b3]]
          w3 == delete_arr(w2, c, v.heap_data)
      IN  IF w3.ub THEN Undefined(w, "grow")
          ELSE Out([w3 EXCEPT !.vec[c].heap_data = x, !.vec[c].size = v.size + k],
                   "none", "grow", HeapPos(x, p))
  ELSE
    LET touched == IF k > 0 \/ p < v.size THEN v.size + k ELSE 0
    IN
    IF ~data_ok(w, c, touched) THEN Undefined(w, "shift")
    ELSE IF touched = 0 THEN Out(w, "none", "shift", DataPos(v, p))
    ELSE
      LET buf == data(w, c)
          b2 == shift_right(buf, p, v.size, xs, w.kind)
          w2 == IF on_stack(v) THEN [w EXCEPT !.vec[c].stack_data = b2]
                ELSE [w EXCEPT !.heap[v.heap_data].cells = b2]
      IN  Out([w2 EXCEPT !.vec[c].size = v.size + k], "none", "shift", DataPos(v, p))

\* erase(first, last) with first == data() + first and last == data() + lst
erase(w, c, first, lst) ==
  LET v == w.vec[c]
      k == lst - first
  IN
  IF ~on_stack(v) /\ v.size - k <= static_cap THEN
    LET touched == IF first > 0 \/ lst < v.size THEN v.size ELSE 0
    IN
    IF ~heap_ok(w, c, v.heap_data, touched) THEN Undefined(w, "demote")
    ELSE
      LET old == IF touched = 0 THEN <<>> ELSE w.heap[v.heap_data].cells
          s2 == demote_copies(old, first, lst, v.size, v.stack_data)
          w1 == delete_arr(w, c, v.heap_data)
      IN  IF w1.ub THEN Undefined(w, "demote")
          ELSE Out([w1 EXCEPT !.vec[c].stack_data = s2,
                              !.vec[c].heap_data = NullPtr,
                              !.vec[c].cap = static_cap,
                              !.vec[c].size = v.size - k],
                   "none", "demote", StackPos(first))
  ELSE
    LET touched == IF lst < v.size THEN v.size ELSE 0
    IN
    IF ~data_ok(w, c, touched) THEN Undefined(w, "shift")
    ELSE IF touched = 0 THEN
      Out([w EXCEPT !.vec[c].size = v.size - k], "none", "shift", DataPos(v, lst))
    ELSE
      LET buf == data(w, c)
          b1 == shift_left(buf, first, lst, v.size, w.kind)
          w2 == IF on_stack(v) THEN [w EXCEPT !.vec[c].stack_data = b1]
                ELSE [w EXCEPT !.heap[v.heap_data].cells = b1]
      IN  Out([w2 EXCEPT !.vec[c].size = v.size - k], "none", "shift", DataPos(v, lst))

\* pop_back()
pop_back(w, c) ==
  IF w.vec[c].size = 0 THEN Out(w, "none", "empty", NoPos)
  ELSE LET o == erase(w, c, w.vec[c].size - 1, w.vec[c].size)
       IN  Out(o.w, o.exc, o.path, NoPos)

\* clear() without its last line, `_cap = static_cap`
clear_keeping_cap(w, c) ==
  LET v == w.vec[c]
      w1 == [w EXCEPT !.vec[c].size = 0]
  IN
  IF on_stack(v) THEN Out(w1, "none", "inline", NoPos)
  ELSE LET w2 == delete_arr(w1, c, v.heap_data)
       IN  IF w2.ub THEN Undefined(w, "heap")
           ELSE Out([w2 EXCEPT !.vec[c].heap_data = NullPtr], "none", "heap", NoPos)

\* clear()
clear(w, c) ==
  LET v == w.vec[c]
      w1 == [w EXCEPT !.vec[c].size = 0]
  IN
  IF on_stack(v) THEN Out(w1, "none", "inline", NoPos)
  ELSE LET w2 == delete_arr(w1, c, v.heap_data)
       IN  IF w2.ub THEN Undefined(w, "heap")
           ELSE Out([w2 EXCEPT !.vec[c].heap_data = NullPtr, !.vec[c].cap = static_cap],
                    "none", "heap", NoPos)

\* operator=(rhs), *this being object c and rhs object r
assign(w, c, r, oom) ==
  IF c = r THEN Out(w, "none", "self", NoPos)
  ELSE
    LET v == w.vec[c]
        rv == w.vec[r]
        w1 == [w EXCEPT !.vec[c].size = rv.size, !.vec[c].cap = rv.cap]
        w2 == delete_arr(w1, c, v.heap_data)
    IN
    IF w2.ub THEN Undefined(w, "delete")
    ELSE IF rv.cap = static_cap THEN
      Out([w2 EXCEPT !.vec[c].stack_data = std_copy(rv.stack_data, 0, rv.size, v.stack_data, 0)],
          "none", "to_stack", NoPos)
    ELSE IF oom THEN Out(w2, "bad_alloc", "to_heap", NoPos)
    ELSE
      LET x == new_addr(w2.heap)
          w3 == [new_arr(w2, c, x, rv.cap) EXCEPT !.vec[c].heap_data = x]
      IN  IF ~heap_ok(w3, r, rv.heap_data, rv.size) THEN Undefined(w, "to_heap")
          ELSE
            LET src == IF rv.size = 0 THEN <<>> ELSE w3.heap[rv.heap_data].cells
            IN  Out([w3 EXCEPT !.heap[x].cells = std_copy(src, 0, rv.size, Fresh(rv.cap), 0)],
                    "none", "to_heap", NoPos)

\* vl_vector(count, v).  It delegates to vl_vector(), so the object exists when
\* the body throws and ~vl_vector() runs.
ctor_fill(w, c, count, val, oom) ==
  LET w0 == ctor_default(w, c)
  IN
  IF count <= static_cap THEN
    Out([w0 EXCEPT !.vec[c].stack_data = std_fill_n(@, count, val), !.vec[c].size = count],
        "none", "inline", NoPos)
  ELSE
    LET ncap == cap_c(0, count)
        w1 == [w0 EXCEPT !.vec[c].cap = ncap]
        x == new_addr(w1.heap)
    IN  IF oom THEN Out(dtor(w1, c), "bad_alloc", "heap", NoPos)
        ELSE Out([w1 EXCEPT !.heap[x] = [live |-> TRUE, owner |-> c,
                                         cells |-> std_fill_n(Fresh(ncap), count, val)],
                            !.vec[c].heap_data = x,
                            !.vec[c].size = count],
                 "none", "heap", NoPos)

\* vl_vector(first, last): vl_vector() and then insert(_stack_data, first, last)
ctor_range(w, c, xs, oom) ==
  LET o == insert(ctor_default(w, c), c, 0, xs, oom)
  IN  IF o.exc = "bad_alloc" THEN Out(dtor(o.w, c), "bad_alloc", o.path, NoPos)
      ELSE Out(o.w, o.exc, o.path, NoPos)

\* vl_vector(const vl_vector &vlv), vlv being object r
ctor_copy(w, c, r, oom) ==
  LET rv == w.vec[r]
      w0 == [w EXCEPT !.vec[c] = [alive |-> TRUE, stack_data |-> Fresh(static_cap),
                                  heap_data |-> NullPtr, size |-> rv.size, cap |-> rv.cap]]
  IN
  IF rv.cap = static_cap THEN
    Out([w0 EXCEPT !.vec[c].stack_data = std_copy(rv.stack_data, 0, rv.size, @, 0)],
        "none", "inline", NoPos)
  ELSE IF oom THEN Out(w, "bad_alloc", "heap", NoPos)
  ELSE IF ~heap_ok(w, r, rv.heap_data, rv.size) THEN Undefined(w, "heap")
  ELSE
    LET x == new_addr(w0.heap)
        src == IF rv.size = 0 THEN <<>> ELSE w.heap[rv.heap_data].cells
    IN  Out([w0 EXCEPT !.heap[x] = [live |-> TRUE, owner |-> c,
                                    cells |-> std_copy(src, 0, rv.size, Fresh(rv.cap), 0)],
                       !.vec[c].heap_data = x],
            "none", "heap", NoPos)

\* at(i) with the bound check off by one: `if (i > _size)`
at_checking_gt(w, c, i) ==
  IF i > w.vec[c].size THEN [exc |-> "out_of_range", val |-> Undef, ub |-> FALSE]
  ELSE IF ~data_ok(w, c, i + 1) \/ i + 1 > Len(data(w, c))
       THEN [exc |-> "none", val |-> Undef, ub |-> TRUE]
  ELSE [exc |-> "none", val |-> data(w, c)[i + 1], ub |-> FALSE]

\* at(i): the exception thrown, the element returned, and whether data()[i]
\* read through a pointer that may not be read
at(w, c, i) ==
  IF i >= w.vec[c].size THEN [exc |-> "out_of_range", val |-> Undef, ub |-> FALSE]
  ELSE IF ~data_ok(w, c, i + 1) THEN [exc |-> "none", val |-> Undef, ub |-> TRUE]
  ELSE [exc |-> "none", val |-> data(w, c)[i + 1], ub |-> FALSE]

\* operator[](i) = x, with i < _size
subscript_write(w, c, i, x) ==
  LET v == w.vec[c]
  IN  IF ~data_ok(w, c, i + 1) THEN Undefined(w, "write")
      ELSE IF on_stack(v) THEN Out([w EXCEPT !.vec[c].stack_data[i + 1] = x], "none", "write", NoPos)
      ELSE Out([w EXCEPT !.heap[v.heap_data].cells[i + 1] = x], "none", "write", NoPos)

\* operator== comparing the two stores whole, the elements beyond _size too
operator_eq_whole_store(w, c, rw, r) ==
  w.vec[c].size = rw.vec[r].size /\ data(w, c) = data(rw, r)

\* operator==(rhs), *this being object c of world w and rhs object r of world rw
operator_eq(w, c, rw, r) ==
  w.vec[c].size = rw.vec[r].size /\ std_equal(data(w, c), w.vec[c].size, data(rw, r))

\* operator!=(rhs)
operator_ne(w, c, rw, r) ==
  w.vec[c].size # rw.vec[r].size \/ ~std_equal(data(w, c), w.vec[c].size, data(rw, r))

\* ------------------------------------------------------------ the system
\* the first _size elements of data(), what begin()..end() iterates over
Logical(vs, hp, c) ==
  IF on_stack(vs[c]) THEN Slice(vs[c].stack_data, 0, vs[c].size)
  ELSE Slice(hp[vs[c].heap_data].cells, 0, vs[c].size)

World == [vec |-> vec, heap |-> heap, ub |-> ub, kind |-> elemKind]

NoPushes == [on |-> FALSE, n |-> 0, pred |-> 0, allocs |-> 0, vals |-> <<>>]
\* an empty object on which nothing but push_back is about to run
FirstPush == [on |-> TRUE, n |-> 0, pred |-> static_cap, allocs |-> 0, vals |-> <<>>]
\* one more push_back(x) that returned o: the capacity the growth function
\* predicts, the number of `new T[_cap]` run so far, the values pushed
PushedOnce(ps, o, x) ==
  IF ps.on
  THEN [on |-> TRUE, n |-> ps.n + 1,
        pred |-> IF ps.n + 1 <= ps.pred THEN ps.pred ELSE cap_c(ps.n, 1),
        allocs |-> IF o.path \in {"promote", "grow"} THEN ps.allocs + 1 ELSE ps.allocs,
        vals |-> Append(ps.vals, x)]
  ELSE NoPushes

\* the record of an operation: its name, the branch it took, what it threw
Op(name, o) == [op |-> name, path |-> o.path, exc |-> o.exc]

\* the state after an operation that returned o; an operation with undefined
\* behaviour ends the run in the state it started from, with ub set
Commit(name, o, ps) ==
  /\ last' = Op(name, o)
  /\ elemKind' = elemKind
  /\ growth' = growth
  /\ IF o.w.ub
     THEN /\ ub' = TRUE
          /\ pushes' = NoPushes
          /\ UNCHANGED <<vec, heap>>
     ELSE /\ ub' = FALSE
          /\ vec' = o.w.vec
          /\ heap' = o.w.heap
          /\ pushes' = ps

Ranges == UNION {[1..n -> Values] : n \in 0..MaxK}

NoCall == [size |-> 0, k |-> 0, done |-> FALSE, cap |-> 0]

InitObjects ==
  /\ vec = [c \in Vecs |-> IF c = "a" THEN ctor_default([vec |-> [d \in Vecs |-> DeadVec]], "a").vec["a"]
                           ELSE DeadVec]
  /\ heap = [x \in Addrs |-> FreeCell]
  /\ ub = FALSE
  /\ elemKind \in {"trivial", "class", "movable"}
  /\ last = Op("ctor_default", Out(World, "none", "inline", NoPos))
  /\ pushes = FirstPush

Init == InitObjects /\ growth = NoCall

Usable(c) == ~ub /\ vec[c].alive
Unborn(c) == ~ub /\ ~vec[c].alive

\* vl_vector<T, static_cap> c;
DefaultCtor(c) ==
  /\ Unborn(c)
  /\ Commit("ctor_default", Out(ctor_default(World, c), "none", "inline", NoPos), FirstPush)

\* vl_vector<T, static_cap> c(count, val);
FillCtor(c, count, val, oom) ==
  /\ Unborn(c)
  /\ Commit("ctor_fill", ctor_fill(World, c, count, val, oom), NoPushes)

\* vl_vector<T, static_cap> c(first, last);
RangeCtor(c, xs, oom) ==
  /\ Unborn(c)
  /\ Commit("ctor_range", ctor_range(World, c, xs, oom), NoPushes)

\* { vl_vector<T, static_cap> t(count, val); vl_vector<T, static_cap> c(t); }
\* with c outliving the block
CopyCtorOfFilled(c, count, val, oom) ==
  /\ Unborn(c)
  /\ LET t == ctor_fill(World, "t", count, val, FALSE)
         o == ctor_copy(t.w, c, "t", oom)
     IN  Commit("ctor_copy", Out(dtor(o.w, "t"), o.exc, o.path, o.pos), NoPushes)

\* c goes out of scope
Dtor(c) ==
  /\ Usable(c)
  /\ Commit("dtor", Out(dtor(World, c), "none", "dtor", NoPos), NoPushes)

\* c.insert(c.begin() + p, first, last)
Insert(c, p, xs, oom) ==
  /\ Usable(c)
  /\ p <= vec[c].size
  /\ vec[c].size + Len(xs) <= MaxSize
  /\ Commit("insert", insert(World, c, p, xs, oom), NoPushes)

\* c.insert(c.begin() + p, x): insert(position, &element, &element + 1)
InsertOne(c, p, x, oom) ==
  /\ Usable(c)
  /\ p <= vec[c].size
  /\ vec[c].size + 1 <= MaxSize
  /\ Commit("insert_one", insert(World, c, p, <<x>>, oom), NoPushes)

\* c.push_back(x): insert(end(), x)
PushBack(c, x, oom) ==
  /\ Usable(c)
  /\ vec[c].size + 1 <= MaxSize
  /\ LET o == insert(World, c, vec[c].size, <<x>>, oom)
     IN  Commit("push_back", Out(o.w, o.exc, o.path, NoPos),
                IF o.exc = "none" THEN PushedOnce(pushes, o, x) ELSE NoPushes)

\* c.erase(c.begin() + first, c.begin() + lst)
Erase(c, first, lst) ==
  /\ Usable(c)
  /\ first <= lst
  /\ lst <= vec[c].size
  /\ Commit("erase", erase(World, c, first, lst), NoPushes)

\* c.erase(c.begin() + i): erase(it, it + 1)
EraseOne(c, i) ==
  /\ Usable(c)
  /\ i < vec[c].size
  /\ Commit("erase_one", erase(World, c, i, i + 1), NoPushes)

\* c.pop_back()
PopBack(c) ==
  /\ Usable(c)
  /\ Commit("pop_back", pop_back(World, c), NoPushes)

\* c.clear()
Clear(c) ==
  /\ Usable(c)
  /\ Commit("clear", clear(World, c), NoPushes)

\* c = vl_vector<T, static_cap>(count, val);  the temporary dies after the assignment,
\* also when the assignment throws
AssignFilled(c, count, val, oom) ==
  /\ Usable(c)
  /\ LET t == ctor_fill(World, "t", count, val, FALSE)
         o == assign(t.w, c, "t", oom)
     IN  Commit("assign", Out(dtor(o.w, "t"), o.exc, o.path, o.pos), NoPushes)

\* c = c;
AssignSelf(c) ==
  /\ Usable(c)
  /\ Commit("assign", assign(World, c, c, FALSE), NoPushes)

\* c.at(i)
At(c, i) ==
  /\ Usable(c)
  /\ LET r == at(World, c, i)
     IN  Commit("at", Out([World EXCEPT !.ub = r.ub], r.exc,
                          IF r.exc = "none" THEN "read" ELSE "throw", NoPos), NoPushes)

\* c.erase(c.insert(c.begin() + p, x))
InsertErase(c, p, x) ==
  /\ Usable(c)
  /\ p <= vec[c].size
  /\ vec[c].size + 1 <= MaxSize
  /\ LET i == insert(World, c, p, <<x>>, FALSE)
         o == erase(i.w, c, i.pos.off, i.pos.off + 1)
     IN  Commit("insert_erase", o, NoPushes)

Next ==
  \/ DefaultCtor("a")
  \/ \E count \in 0..MaxSize, val \in Values : FillCtor("a", count, val, FALSE)
  \/ \E xs \in Ranges : RangeCtor("a", xs, FALSE)
  \/ \E count \in 0..MaxSize, val \in Values : CopyCtorOfFilled("a", count, val, FALSE)
  \/ Dtor("a")
  \/ \E p \in 0..MaxSize, xs \in Ranges : Insert("a", p, xs, FALSE)
  \/ \E p \in 0..MaxSize, x \in Values : InsertOne("a", p, x, FALSE)
  \/ \E x \in Values : PushBack("a", x, FALSE)
  \/ \E first \in 0..MaxSize, lst \in 0..MaxSize : Erase("a", first, lst)
  \/ \E i \in 0..MaxSize : EraseOne("a", i)
  \/ PopBack("a")
  \/ Clear("a")
  \/ \E count \in 0..MaxSize, val \in Values : AssignFilled("a", count, val, FALSE)
  \/ AssignSelf("a")
  \/ \E p \in 0..MaxSize, x \in Values : InsertErase("a", p, x)
  \/ \E i \in 0..MaxSize : At("a", i)

Spec == Init /\ [][Next]_vars

\* the same operations, and those in which `new T[n]` throws std::bad_alloc
NextOOM ==
  \/ Next
  \/ \E count \in 0..MaxSize, val \in Values : FillCtor("a", count, val, TRUE)
  \/ \E xs \in Ranges : RangeCtor("a", xs, TRUE)
  \/ \E count \in 0..MaxSize, val \in Values : CopyCtorOfFilled("a", count, val, TRUE)
  \/ \E p \in 0..MaxSize, xs \in Ranges : Insert("a", p, xs, TRUE)
  \/ \E p \in 0..MaxSize, x \in Values : InsertOne("a", p, x, TRUE)
  \/ \E x \in Values : PushBack("a", x, TRUE)
  \/ \E count \in 0..MaxSize, val \in Values : AssignFilled("a", count, val, TRUE)

SpecOOM == Init /\ [][NextOOM]_vars

\* vl_vector<T, static_cap> c(r);
CopyCtor(c, r, oom) ==
  /\ Unborn(c) /\ Usable(r)
  /\ Commit("ctor_copy", ctor_copy(World, c, r, oom), NoPushes)

\* c = r;
Assign(c, r, oom) ==
  /\ Usable(c) /\ Usable(r)
  /\ Commit("assign", assign(World, c, r, oom), NoPushes)

\* c[i] = x;
Write(c, i, x) ==
  /\ Usable(c)
  /\ i < vec[c].size
  /\ Commit("write", subscript_write(World, c, i, x), NoPushes)

\* c == r, and c != r
Compare(c, r) ==
  /\ Usable(c) /\ Usable(r)
  /\ Commit("compare", Out(World, "none",
                           IF operator_eq(World, c, World, r) THEN "equal" ELSE "differ",
                           NoPos), NoPushes)

\* two objects: a is built, mutated and destroyed, b is made a copy of a
NextCopy ==
  \/ DefaultCtor("a")
  \/ \E count \in 0..MaxCopy, val \in Values : FillCtor("a", count, val, FALSE)
  \/ \E p \in 0..MaxCopy, xs \in Ranges :
       vec["a"].size + Len(xs) <= MaxCopy /\ Insert("a", p, xs, FALSE)
  \/ \E first \in 0..MaxCopy, lst \in 0..MaxCopy : Erase("a", first, lst)
  \/ Clear("a")
  \/ \E i \in 0..MaxCopy, x \in Values : Write("a", i, x)
  \/ Dtor("a")
  \/ CopyCtor("b", "a", FALSE)
  \/ Assign("b", "a", FALSE)
  \/ Dtor("b")
  \/ Compare("a", "b")

\* the copies are std::copy between two arrays whatever T is; T is taken
\* trivially copyable
InitCopy == Init /\ elemKind = "trivial"

SpecCopy == InitCopy /\ [][NextCopy]_vars

\* cap_c(size, k), a static member, called on its own with any arguments
CapC ==
  /\ ~growth.done
  /\ growth' = [growth EXCEPT !.done = TRUE, !.cap = cap_c(growth.size, growth.k)]
  /\ UNCHANGED <<vec, heap, ub, elemKind, last, pushes>>

InitGrowth ==
  /\ InitObjects
  /\ growth \in [size : 0..MaxArg, k : 0..MaxArg, done : {FALSE}, cap : {0}]

NextGrowth == CapC

SpecGrowth == InitGrowth /\ [][NextGrowth]_vars

\* -------------------------------------------------------------- claims
\* the fields of the object under test, and what begin()..end() holds
A == vec["a"]
Old == Logical(vec, heap, "a")
After(o) == Logical(o.w.vec, o.w.heap, "a")

\* C1: after every public operation capacity == N iff the inline store is in
\* use and capacity > N iff the object owns a live heap array of exactly
\* capacity elements; an inline-backed object holds no heap array, neither a
\* live one nor a pointer to a released one.
C1_StoreMatchesCapacity ==
  \A c \in Vecs : vec[c].alive =>
    /\ vec[c].cap >= static_cap
    /\ on_stack(vec[c]) => vec[c].heap_data = NullPtr
    /\ ~on_stack(vec[c]) =>
         /\ vec[c].heap_data # NullPtr
         /\ heap[vec[c].heap_data].live
         /\ heap[vec[c].heap_data].owner = c
         /\ Len(heap[vec[c].heap_data].cells) = vec[c].cap

\* C2: size <= capacity in every state reachable from a constructor by
\* insert, push_back, erase, pop_back, clear and copy assignment.
C2_SizeLeCap == \A c \in Vecs : vec[c].alive => vec[c].size <= vec[c].cap

\* a heap-backed object filled to its capacity by an insert
C2_Witness ==
  /\ Usable("a") /\ ~on_stack(A) /\ A.size = A.cap
  /\ last.op = "insert" /\ last.exc = "none"

\* C3: an insert of k elements before p that needs no reallocation leaves
\* old[0, p), then the k new elements, then old[p, size) with their values and
\* order, for every p and every suffix length, also suffixes longer than k.
C3_ShiftKeepsSuffix ==
  [][\A p \in 0..MaxSize, xs \in Ranges :
       (Insert("a", p, xs, FALSE) /\ last'.path = "shift")
         => Logical(vec', heap', "a") = Slice(Old, 0, p) \o xs \o Slice(Old, p, A.size)]_vars

\* C4: an insert of k elements before p that must reallocate (from the inline
\* store or from a heap array that is too small) leaves old[0, p), the k new
\* elements, old[p, size); size grows by k, capacity becomes
\* floor(1.5 * (size + k)), and the returned iterator is index p of the new array.
C4_ReallocInsert ==
  Usable("a") =>
    \A p \in 0..A.size, xs \in Ranges :
      A.size + Len(xs) > A.cap =>
        LET o == insert(World, "a", p, xs, FALSE)
            nv == o.w.vec["a"]
        IN  /\ ~o.w.ub /\ o.exc = "none"
            /\ nv.size = A.size + Len(xs)
            /\ nv.cap = (3 * (A.size + Len(xs))) \div 2
            /\ ~on_stack(nv) /\ o.w.heap[nv.heap_data].live
            /\ After(o) = Slice(Old, 0, p) \o xs \o Slice(Old, p, A.size)
            /\ o.pos = HeapPos(nv.heap_data, p)

\* a heap array that was too small has been replaced by a larger one
C4_Witness ==
  /\ Usable("a") /\ last.op = "insert" /\ last.path = "grow" /\ last.exc = "none"
  /\ A.size > static_cap + 1

\* C5: erase(first, last) returns the position of the first element after the
\* erased range at its new place, index first of the resulting sequence, in the
\* demoting and in the non-demoting branch.
C5_EraseReturnsFirst ==
  [][\A first \in 0..MaxSize, lst \in 0..MaxSize :
       Erase("a", first, lst)
         => erase(World, "a", first, lst).pos = DataPos(vec'["a"], first)]_vars

\* C6: when the allocation of a new array fails during insert, push_back or
\* copy assignment, the exception propagates and the object is left exactly
\* as it was: same size, capacity, active store and element values.
C6_FailedAllocKeepsState ==
  [][(last'.exc = "bad_alloc" /\ last'.op \in {"insert", "insert_one", "push_back", "assign"})
       => (vec'["a"] = vec["a"] /\ heap' = heap)]_vars

\* C7: an erase (range, single element or pop_back) that takes a heap-backed
\* object from size > N to size - k <= N leaves capacity N, the inline store
\* active, the heap array released, and old[0, first) followed by
\* old[last, size) in their order.
C7_Demoted(o, first, lst) ==
  LET nv == o.w.vec["a"]
  IN  /\ ~o.w.ub /\ o.exc = "none"
      /\ nv.cap = static_cap /\ on_stack(nv)
      /\ nv.heap_data = NullPtr /\ ~o.w.heap[A.heap_data].live
      /\ nv.size = A.size - (lst - first)
      /\ After(o) = Slice(Old, 0, first) \o Slice(Old, lst, A.size)

C8_EraseInPlace ==
  [][\A first \in 0..MaxSize, lst \in 0..MaxSize :
       (Erase("a", first, lst) /\ last'.path = "shift")
         => /\ ~ub'
            /\ vec'["a"].cap = A.cap /\ vec'["a"].heap_data = A.heap_data
            /\ vec'["a"].size = A.size - (lst - first)
            /\ Logical(vec', heap', "a") = Slice(Old, 0, first) \o Slice(Old, lst, A.size)]_vars

\* C9: for any object c, any position p in 0..size and any element x,
\* inserting x at p and then erasing the element at p gives an object equal
\* (operator==) to c.
C9_InsertEraseRoundTrip ==
  [][\A p \in 0..MaxSize, x \in Values :
       InsertErase("a", p, x)
         => (~ub' /\ operator_eq([vec |-> vec', heap |-> heap'], "a", World, "a"))]_vars

\* C10: after n push_back calls on an empty object size() == n, and capacity()
\* never exceeds what the growth function predicts when applied push by push.
C10_PushGrowth ==
  pushes.on => (Usable("a") /\ A.size = pushes.n /\ A.cap <= pushes.pred)

\* MaxSize pushes on an empty object, the last one into a grown heap array
C10_Witness ==
  /\ pushes.on /\ pushes.n = MaxSize /\ ~on_stack(A)
  /\ last.op = "push_back"

\* C16: inserting an empty range (k == 0) at any position p in 0..size changes
\* nothing: size, capacity, the backing store and the element sequence stay as
\* they were.
C16_EmptyInsertNoOp ==
  [][\A p \in 0..MaxSize :
       Insert("a", p, <<>>, FALSE)
         => /\ ~ub'
            /\ vec'["a"].size = A.size /\ vec'["a"].cap = A.cap
            /\ vec'["a"].heap_data = A.heap_data
            /\ Logical(vec', heap', "a") = Old]_vars

\* C11: pushing N + 1 elements onto an empty object allocates exactly once, on
\* the (N + 1)-th push: up to N pushes the object is inline-backed with no
\* allocation made; after the (N + 1)-th it is heap-backed with size N + 1,
\* capacity floor(1.5 * (N + 1)), and holds the pushed values in push order.
C11_FirstPromotion ==
  pushes.on =>
    /\ pushes.n <= static_cap =>
         (pushes.allocs = 0 /\ on_stack(A) /\ A.cap = static_cap /\ Old = pushes.vals)
    /\ pushes.n = static_cap + 1 =>
         /\ pushes.allocs = 1 /\ last.path = "promote"
         /\ ~on_stack(A) /\ heap[A.heap_data].live
         /\ A.size = static_cap + 1
         /\ A.cap = (3 * (static_cap + 1)) \div 2
         /\ Old = pushes.vals

\* the (N + 1)-th push_back on an empty object has returned
C11_Witness ==
  /\ pushes.on /\ pushes.n = static_cap + 1
  /\ last.op = "push_back" /\ last.path = "promote"
  /\ Len(pushes.vals) = static_cap + 1

\* at(i) throws for i >= size and returns the i-th element for i < size
AtChecksBounds ==
  Usable("a") =>
    \A i \in 0..MaxSize :
      LET r == at(World, "a", i)
      IN  /\ ~r.ub
          /\ i >= A.size => r.exc = "out_of_range"
          /\ i < A.size => (r.exc = "none" /\ r.val = Old[i + 1])

\* C14: at(i) throws std::out_of_range for every i >= size, returns the i-th
\* element of the sequence for i < size, and, throwing or not, leaves size,
\* capacity, the stores and the sequence as they were.
C14_AtChecked ==
  /\ []AtChecksBounds
  /\ [][\A i \in 0..MaxSize : At("a", i) => (~ub' /\ vec' = vec /\ heap' = heap)]_vars

\* at(i) has thrown on a non-empty object
C14_Witness ==
  /\ Usable("a") /\ A.size > 0
  /\ last.op = "at" /\ last.exc = "out_of_range"

\* a default-constructed object, built next to the reachable ones
Empty == ctor_default(World, "t")

\* C15: clear() on any container leaves size 0 and capacity N with the inline
\* store active; a heap-backed container's array is released, once, and no
\* other; the cleared container has the size and capacity of a
\* default-constructed one and compares equal to it.
C15_ClearResets ==
  Usable("a") =>
    LET o == clear(World, "a")
        nv == o.w.vec["a"]
    IN  /\ ~o.w.ub /\ o.exc = "none"
        /\ nv.size = 0 /\ nv.cap = static_cap /\ on_stack(nv)
        /\ ~on_stack(A) => /\ heap[A.heap_data].live
                           /\ ~o.w.heap[A.heap_data].live
                           /\ nv.heap_data = NullPtr
        /\ \A x \in Addrs : (on_stack(A) \/ x # A.heap_data) => o.w.heap[x] = heap[x]
        /\ nv.size = Empty.vec["t"].size /\ nv.cap = Empty.vec["t"].cap
        /\ operator_eq(o.w, "a", Empty, "t") /\ ~operator_ne(o.w, "a", Empty, "t")

\* clear() has run on a heap-backed container
C15_Witness ==
  /\ Usable("a") /\ last.op = "clear" /\ last.path = "heap"
  /\ A.size = 0 /\ on_stack(A) /\ \A x \in Addrs : ~heap[x].live

\* C17: over any sequence of operations ending with the destruction of the
\* container, each heap array is released exactly once: no delete[] (in
\* operator= or the destructor) hits an array that was already released, and
\* after the destructor no array is left allocated.
C17_ReleasedOnce ==
  [][/\ last'.path \in {"delete", "dtor"} => ~ub'
     /\ Dtor("a") => \A x \in Addrs : ~heap'[x].live]_vars

\* C18: when a heap-backed container grows into a larger array during insert,
\* capacity is updated last, after the new array was allocated and filled and
\* the old one released: an insert whose allocation fails while growing leaves
\* capacity, the old array and its contents as they were.
C18_GrowUpdatesCapLast ==
  [][\A p \in 0..MaxSize, xs \in Ranges :
       (Insert("a", p, xs, TRUE) /\ last'.path = "grow")
         => /\ vec'["a"].cap = A.cap
            /\ vec'["a"].heap_data = A.heap_data
            /\ heap' = heap]_vars

\* C20: in every reachable state the container is inline-backed
\* (capacity == N) iff size <= N and heap-backed iff size > N; and n <= N
\* push_backs from empty keep capacity N with no heap allocation.
C20_StoreBySize ==
  Usable("a") =>
    /\ A.cap = static_cap <=> A.size <= static_cap
    /\ A.cap # static_cap <=> A.size > static_cap
    /\ (pushes.on /\ pushes.n <= static_cap) => (A.cap = static_cap /\ pushes.allocs = 0)

\* C19: cap_c(size, k) returns N when size + k <= N and floor(1.5 * (size + k))
\* otherwise; the value is >= size + k, is > N whenever size + k > N, does not
\* decrease when size or k grows, and is the same whatever the element type
\* and the objects around the call.
C19_GrowthFunction ==
  growth.done =>
    LET n == growth.size + growth.k
        r == growth.cap
    IN  /\ n <= static_cap => r = static_cap
        /\ n > static_cap => (2 * r <= 3 * n /\ 3 * n < 2 * (r + 1))
        /\ r >= n
        /\ n > static_cap => r > static_cap
        /\ cap_c(growth.size + 1, growth.k) >= r
        /\ cap_c(growth.size, growth.k + 1) >= r
        /\ \A s \in 0..growth.size, j \in 0..growth.k : cap_c(s, j) <= r
        /\ r = cap_c(growth.size, growth.k)

\* cap_c has returned for arguments that do not fit and whose sum is odd, so
\* that 1.5 * (size + k) is truncated
C19_Witness ==
  /\ growth.done /\ growth.size + growth.k > static_cap
  /\ (growth.size + growth.k) % 2 = 1
  /\ growth.size > 0 /\ growth.k > 0

\* what a caller sees of object c: size(), capacity() and the elements
Observed(vs, hp, c) == <<vs[c].size, vs[c].cap, Logical(vs, hp, c)>>

\* C12: after b is made a copy of a, by copy construction or by copy
\* assignment whichever store either side used before, b has a's size,
\* capacity and elements; and no later operation on a (insert, erase, clear,
\* element write, destruction, construction) changes b's size, capacity or
\* elements.
C12_CopyIndependence ==
  [][/\ (CopyCtor("b", "a", FALSE) \/ Assign("b", "a", FALSE))
          => (~ub' /\ Observed(vec', heap', "b") = Observed(vec, heap, "a"))
     /\ (vec["b"].alive /\ vec'["b"].alive /\ last'.op \notin {"ctor_copy", "assign"})
          => Observed(vec', heap', "b") = Observed(vec, heap, "b")]_vars

\* C13: a == b holds iff the sizes match and the first size elements are
\* pairwise equal, whatever the capacities, the stores in use and the values
\* beyond size are; a != b is the negation of a == b, in both directions.
C13_EqualityBySequence ==
  (Usable("a") /\ vec["b"].alive) =>
    LET sa == Logical(vec, heap, "a")
        sb == Logical(vec, heap, "b")
        same == Len(sa) = Len(sb) /\ \A i \in 1..Len(sa) : sa[i] = sb[i]
    IN  /\ operator_eq(World, "a", World, "b") <=> same
        /\ operator_eq(World, "b", World, "a") <=> same
        /\ operator_ne(World, "a", World, "b") <=> ~operator_eq(World, "a", World, "b")
        /\ operator_ne(World, "b", World, "a") <=> ~operator_eq(World, "b", World, "a")
        /\ last.op = "compare" => (last.path = "equal" <=> same)

\* two objects of different capacity have been compared and found equal
C13_Witness ==
  /\ Usable("a") /\ vec["b"].alive
  /\ last.op = "compare" /\ last.path = "equal"
  /\ A.size > 0 /\ A.cap # vec["b"].cap
====
